---- MODULE Spec2Model ----
(***************************************************************************)
(* The JSON-RPC tool dispatcher of defillama-mcp (src/main.py): the POST / *)
(* handler handle_mcp_request, the upstream fetcher make_request and the   *)
(* six tool coroutines, as a state machine over the requests in flight.    *)
(***************************************************************************)
EXTENDS Integers, Sequences, FiniteSets, TLC

VARIABLES pc, raw, frame, call, fetches, reply, response, escaped

vars == <<pc, raw, frame, call, fetches, reply, response, escaped>>

(***************************************************************************)
(* Bounds of the model.                                                    *)
(***************************************************************************)
\* longest list the upstream returns (longer than both truncation limits)
MaxListLen == 32
\* requests served concurrently under SpecConc
NumRequests == 2

(***************************************************************************)
(* Python / JSON values.  Every value is a tagged record; a dict is the    *)
(* sequence of its entries in insertion order, as a Python dict keeps it.  *)
(***************************************************************************)
JNull == [t |-> "null"]
JBool(b) == [t |-> "bool", b |-> b]
JNum(n) == [t |-> "num", n |-> n]
JStr(s) == [t |-> "str", s |-> s]
JList(items) == [t |-> "list", v |-> items]
JObj(entries) == [t |-> "dict", v |-> entries]
\* a str holding a serialized JSON document (the token sequence of its text)
JText(toks) == [t |-> "text", toks |-> toks]
E(k, v) == [k |-> k, v |-> v]

IsDict(x) == x.t = "dict"
IsList(x) == x.t = "list"

Min(a, b) == IF a < b THEN a ELSE b

Keys(d) == {d.v[i].k : i \in 1..Len(d.v)}
HasKey(d, k) == k \in Keys(d)

\* dict.get(k, default)
Get(d, k, default) ==
  IF HasKey(d, k)
  THEN d.v[CHOOSE i \in 1..Len(d.v) : d.v[i].k = k].v
  ELSE default

\* d[k] = v of a dict under construction: a repeated key keeps its place
RECURSIVE Put(_, _, _)
Put(entries, k, v) ==
  IF entries = <<>> THEN <<E(k, v)>>
  ELSE IF Head(entries).k = k THEN <<E(k, v)>> \o Tail(entries)
  ELSE <<Head(entries)>> \o Put(Tail(entries), k, v)

\* type(x).__name__
TypeName(x) ==
  CASE x.t = "null" -> "NoneType"
    [] x.t = "bool" -> "bool"
    [] x.t = "num" -> "int"
    [] x.t = "str" -> "str"
    [] x.t = "text" -> "str"
    [] x.t = "list" -> "list"
    [] x.t = "dict" -> "dict"

\* str(x), as an f-string formats x (containers: the empty ones only)
PyStr(x) ==
  CASE x.t = "null" -> "None"
    [] x.t = "bool" -> IF x.b THEN "True" ELSE "False"
    [] x.t = "num" -> ToString(x.n)
    [] x.t = "str" -> x.s
    [] x.t = "list" -> "[]"
    [] x.t = "dict" -> "{}"

\* (mutant) the tools do not test their argument
TruthyAlways(x) == TRUE
\* bool(x): what `not x` tests
Truthy(x) ==
  CASE x.t = "null" -> FALSE
    [] x.t = "bool" -> x.b
    [] x.t = "num" -> x.n # 0
    [] x.t = "str" -> x.s # ""
    [] x.t = "text" -> x.toks # <<>>
    [] x.t = "list" -> Len(x.v) > 0
    [] x.t = "dict" -> Len(x.v) > 0

(***************************************************************************)
(* json.dumps and json.loads, on the token sequence of the text.           *)
(***************************************************************************)
TPunct(c) == [k |-> "p", s |-> c, n |-> 0]
TLit(w) == [k |-> "l", s |-> w, n |-> 0]
TNum(n) == [k |-> "n", s |-> "", n |-> n]
TStr(s) == [k |-> "s", s |-> s, n |-> 0]
\* a newline followed by n spaces
TWs(n) == [k |-> "w", s |-> "", n |-> n]

\* indent < 0 stands for indent=None: no line breaks
Break(indent, lvl) == IF indent < 0 THEN <<>> ELSE <<TWs(indent * lvl)>>

RECURSIVE Encode(_, _, _), EncodeItems(_, _, _, _), EncodeEntries(_, _, _, _)
Encode(x, indent, lvl) ==
  CASE x.t = "null" -> <<TLit("null")>>
    [] x.t = "bool" -> <<TLit(IF x.b THEN "true" ELSE "false")>>
    [] x.t = "num" -> <<TNum(x.n)>>
    [] x.t = "str" -> <<TStr(x.s)>>
    [] x.t = "list" ->
         IF Len(x.v) = 0 THEN <<TPunct("["), TPunct("]")>>
         ELSE <<TPunct("[")>> \o EncodeItems(x.v, 1, indent, lvl + 1)
              \o Break(indent, lvl) \o <<TPunct("]")>>
    [] x.t = "dict" ->
         IF Len(x.v) = 0 THEN <<TPunct("{"), TPunct("}")>>
         ELSE <<TPunct("{")>> \o EncodeEntries(x.v, 1, indent, lvl + 1)
              \o Break(indent, lvl) \o <<TPunct("}")>>
EncodeItems(items, i, indent, lvl) ==
  IF i > Len(items) THEN <<>>
  ELSE Break(indent, lvl) \o Encode(items[i], indent, lvl)
       \o (IF i < Len(items) THEN <<TPunct(",")>> ELSE <<>>)
       \o EncodeItems(items, i + 1, indent, lvl)
EncodeEntries(entries, i, indent, lvl) ==
  IF i > Len(entries) THEN <<>>
  ELSE Break(indent, lvl) \o <<TStr(entries[i].k), TPunct(":")>>
       \o Encode(entries[i].v, indent, lvl)
       \o (IF i < Len(entries) THEN <<TPunct(",")>> ELSE <<>>)
       \o EncodeEntries(entries, i + 1, indent, lvl)

\* json.dumps(x, indent=indent)
Dumps(x, indent) == Encode(x, indent, 0)

Parsed(x, i) == [ok |-> TRUE, v |-> x, i |-> i]
DecodeError(msg) == [ok |-> FALSE, msg |-> msg]

RECURSIVE SkipWs(_, _)
SkipWs(toks, i) ==
  IF i <= Len(toks) /\ toks[i].k = "w" THEN SkipWs(toks, i + 1) ELSE i

IsPunct(toks, i, c) == i <= Len(toks) /\ toks[i].k = "p" /\ toks[i].s = c

RECURSIVE ParseValue(_, _), ParseItems(_, _, _), ParseEntries(_, _, _)

\* after an item of a list: a comma and the next item, or the closing bracket
ItemsSep(toks, j, acc) ==
  IF IsPunct(toks, j, ",") THEN ParseItems(toks, j + 1, acc)
  ELSE IF IsPunct(toks, j, "]") THEN Parsed(JList(acc), j + 1)
  ELSE DecodeError("Expecting ',' delimiter")
ItemsAfter(toks, r, acc) ==
  IF ~r.ok THEN r ELSE ItemsSep(toks, SkipWs(toks, r.i), Append(acc, r.v))
ParseItems(toks, i, acc) == ItemsAfter(toks, ParseValue(toks, i), acc)
ListAt(toks, i) ==
  IF IsPunct(toks, i, "]") THEN Parsed(JList(<<>>), i + 1)
  ELSE ParseItems(toks, i, <<>>)

\* after an entry of an object: a comma and the next entry, or the closing brace
EntrySep(toks, j, acc) ==
  IF IsPunct(toks, j, ",") THEN ParseEntries(toks, j + 1, acc)
  ELSE IF IsPunct(toks, j, "}") THEN Parsed(JObj(acc), j + 1)
  ELSE DecodeError("Expecting ',' delimiter")
EntryAfter(toks, key, r, acc) ==
  IF ~r.ok THEN r ELSE EntrySep(toks, SkipWs(toks, r.i), Put(acc, key, r.v))
ColonAt(toks, key, i, acc) ==
  IF ~IsPunct(toks, i, ":") THEN DecodeError("Expecting ':' delimiter")
  ELSE EntryAfter(toks, key, ParseValue(toks, i + 1), acc)
EntryAt(toks, i, acc) ==
  IF ~(i <= Len(toks) /\ toks[i].k = "s")
  THEN DecodeError("Expecting property name enclosed in double quotes")
  ELSE ColonAt(toks, toks[i].s, SkipWs(toks, i + 1), acc)
ParseEntries(toks, i, acc) == EntryAt(toks, SkipWs(toks, i), acc)
DictAt(toks, i) ==
  IF IsPunct(toks, i, "}") THEN Parsed(JObj(<<>>), i + 1)
  ELSE ParseEntries(toks, i, <<>>)

ValueAt(toks, i) ==
  IF i > Len(toks) THEN DecodeError("Expecting value")
  ELSE CASE toks[i].k = "l" ->
              Parsed(IF toks[i].s = "null" THEN JNull
                     ELSE JBool(toks[i].s = "true"), i + 1)
         [] toks[i].k = "n" -> Parsed(JNum(toks[i].n), i + 1)
         [] toks[i].k = "s" -> Parsed(JStr(toks[i].s), i + 1)
         [] IsPunct(toks, i, "[") -> ListAt(toks, SkipWs(toks, i + 1))
         [] IsPunct(toks, i, "{") -> DictAt(toks, SkipWs(toks, i + 1))
         [] OTHER -> DecodeError("Expecting value")
ParseValue(toks, i) == ValueAt(toks, SkipWs(toks, i))

\* a document is one value and nothing after it
Whole(toks, r) ==
  IF ~r.ok THEN r
  ELSE IF SkipWs(toks, r.i) <= Len(toks) THEN DecodeError("Extra data")
  ELSE r
\* json.loads(text): [ok |-> TRUE, v |-> value] or the JSONDecodeError
Loads(toks) == Whole(toks, ParseValue(toks, 1))

(***************************************************************************)
(* Constants of src/main.py.                                               *)
(***************************************************************************)
DEFI_API_BASE == "https://api.llama.fi"
COIN_API_BASE == "https://coins.llama.fi"
YIELDS_API_BASE == "https://yields.llama.fi"

NotFoundCode == -32601
InternalErrorCode == -32603
\* json.dumps(result, indent=2)
Indent == 2
\* data[:20] of get_protocols; data[:30] of the three other list tools
ProtocolsLimit == 20
ChainLimit == 30
PoolsLimit == 30
PoolTvlLimit == 30

ToolNames == {"get_protocols", "get_protocol_tvl", "get_chain_tvl",
              "get_token_prices", "get_pools", "get_pool_tvl"}
NoArgTools == {"get_protocols", "get_pools"}

\* the key handle_mcp_request reads from arguments for each tool
ArgKey(fn) ==
  CASE fn = "get_protocol_tvl" -> "protocol"
    [] fn = "get_chain_tvl" -> "chain"
    [] fn = "get_token_prices" -> "token"
    [] fn = "get_pool_tvl" -> "pool"

\* the interpreters the server runs on: slicing a dict raises TypeError up to
\* 3.11 and KeyError from 3.12 on (a slice became hashable)
PythonVersions == {"3.11", "3.12"}

(***************************************************************************)
(* Exceptions and the results of a call: a value or a raised exception.    *)
(***************************************************************************)
Exc(type, msg) == [type |-> type, msg |-> msg]
NoExc == Exc("none", "")
Return(x) == [ok |-> TRUE, v |-> x]
Raise(e) == [ok |-> FALSE, exc |-> e]

\* x.get(...) on a value that is no dict
NoGetAttr(x) ==
  Exc("AttributeError", "'" \o TypeName(x) \o "' object has no attribute 'get'")

\* (mutant) the value is passed on whole
SliceAll(x, n, ver) == Return(x)
\* x[:n]
Slice(x, n, ver) ==
  CASE x.t = "list" -> Return(JList(SubSeq(x.v, 1, Min(n, Len(x.v)))))
    [] x.t = "str" -> Return(JStr(SubSeq(x.s, 1, Min(n, Len(x.s)))))
    [] x.t = "dict" ->
         IF ver = "3.11"
         THEN Raise(Exc("TypeError", "unhashable type: 'slice'"))
         ELSE Raise(Exc("KeyError", "slice(None, " \o ToString(n) \o ", None)"))
    [] OTHER ->
         Raise(Exc("TypeError",
                   "'" \o TypeName(x) \o "' object is not subscriptable"))

(***************************************************************************)
(* make_request: the replies of the upstream and what the fetch returns.   *)
(***************************************************************************)
\* client.get raised (connection refused, timeout, ...)
FetchError(cause) == [kind |-> "error", cause |-> cause, status |-> 0, body |-> <<>>]
\* an HTTP response: its status and the tokens of its body
HttpReply(status, body) == [kind |-> "http", cause |-> "", status |-> status, body |-> body]
NoReply == [kind |-> "none", cause |-> "", status |-> 0, body |-> <<>>]

\* every exception is caught and None returned
\* response.json(): the value, or None for the caught decode error
JsonOrNone(p) == IF p.ok THEN p.v ELSE JNull
\* (mutant) the status of the response is not looked at
make_request_any_status(rep) ==
  IF rep.kind = "error" THEN JNull ELSE JsonOrNone(Loads(rep.body))
make_request(rep) ==
  IF rep.kind = "error" THEN JNull
  ELSE IF rep.status >= 400 THEN JNull
  ELSE JsonOrNone(Loads(rep.body))

(***************************************************************************)
(* The six tools, each cut at its one await: *_start runs up to the fetch  *)
(* (a result, or the URL to fetch), the tool itself runs from the fetched  *)
(* data to the return.                                                     *)
(***************************************************************************)
Fetch(url) == [ok |-> TRUE, await |-> TRUE, url |-> url]
Early(x) == [ok |-> TRUE, await |-> FALSE, v |-> x]
ErrorPayload(msg) == JObj(<<E("error", JStr(msg))>>)

get_protocols_start == Fetch(DEFI_API_BASE \o "/protocols")
get_protocols(data, ver) ==
  IF data.t = "null" THEN Return(ErrorPayload("Failed to fetch protocols"))
  ELSE LET s == Slice(data, ProtocolsLimit, ver) IN
       IF ~s.ok THEN s ELSE Return(JObj(<<E("protocols", s.v)>>))

get_protocol_tvl_start(protocol) ==
  IF ~Truthy(protocol) THEN Early(ErrorPayload("Protocol name is required"))
  ELSE Fetch(DEFI_API_BASE \o "/protocol/" \o PyStr(protocol))
get_protocol_tvl(protocol, data, ver) ==
  IF data.t = "null"
  THEN Return(ErrorPayload("Failed to fetch TVL for protocol: " \o PyStr(protocol)))
  ELSE IF ~IsDict(data) THEN Raise(NoGetAttr(data))
  ELSE Return(JObj(<<
         E("protocol", protocol),
         E("current_chain_tvls", Get(data, "currentChainTvls", JObj(<<>>))),
         E("metadata", JObj(<<
             E("name", Get(data, "name", JNull)),
             E("symbol", Get(data, "symbol", JNull)),
             E("url", Get(data, "url", JNull)),
             E("description", Get(data, "description", JNull)),
             E("chain", Get(data, "chain", JNull)),
             E("logo", Get(data, "logo", JNull)),
             E("category", Get(data, "category", JNull))>>))>>))

\* (mutant) the limit of get_protocols copied into get_chain_tvl
get_chain_tvl_20(chain, data, ver) ==
  IF data.t = "null"
  THEN Return(ErrorPayload("Failed to fetch TVL for chain: " \o PyStr(chain)))
  ELSE LET s == Slice(data, ProtocolsLimit, ver) IN
       IF ~s.ok THEN s
       ELSE Return(JObj(<<E("chain", chain), E("tvl_data", s.v)>>))
get_chain_tvl_start(chain) ==
  IF ~Truthy(chain) THEN Early(ErrorPayload("Chain name is required"))
  ELSE Fetch(DEFI_API_BASE \o "/v2/historicalChainTvl/" \o PyStr(chain))
get_chain_tvl(chain, data, ver) ==
  IF data.t = "null"
  THEN Return(ErrorPayload("Failed to fetch TVL for chain: " \o PyStr(chain)))
  ELSE LET s == Slice(data, ChainLimit, ver) IN
       IF ~s.ok THEN s
       ELSE Return(JObj(<<E("chain", chain), E("tvl_data", s.v)>>))

get_token_prices_start(token) ==
  IF ~Truthy(token) THEN Early(ErrorPayload("Token identifier is required"))
  ELSE Fetch(COIN_API_BASE \o "/prices/current/" \o PyStr(token))
get_token_prices(token, data, ver) ==
  IF data.t = "null"
  THEN Return(ErrorPayload("Failed to fetch price for token: " \o PyStr(token)))
  ELSE Return(JObj(<<E("token", token), E("price_data", data)>>))

get_pools_start == Fetch(YIELDS_API_BASE \o "/pools")
get_pools(data, ver) ==
  IF data.t = "null" THEN Return(ErrorPayload("Failed to fetch pools"))
  ELSE IF IsDict(data) /\ HasKey(data, "data")
  THEN LET s == Slice(Get(data, "data", JNull), PoolsLimit, ver) IN
       IF ~s.ok THEN s ELSE Return(JObj(<<E("pools", s.v)>>))
  ELSE IF IsList(data)
  THEN Return(JObj(<<E("pools", Slice(data, PoolsLimit, ver).v)>>))
  ELSE Return(JObj(<<E("pools", data)>>))

get_pool_tvl_start(pool) ==
  IF ~Truthy(pool) THEN Early(ErrorPayload("Pool ID is required"))
  ELSE Fetch(YIELDS_API_BASE \o "/chart/" \o PyStr(pool))
get_pool_tvl(pool, data, ver) ==
  IF data.t = "null"
  THEN Return(ErrorPayload("Failed to fetch pool data for: " \o PyStr(pool)))
  ELSE IF IsDict(data) /\ HasKey(data, "data")
  THEN LET s == Slice(Get(data, "data", JNull), PoolTvlLimit, ver) IN
       IF ~s.ok THEN s
       ELSE Return(JObj(<<E("pool_id", pool), E("chart_data", s.v),
                          E("status", Get(data, "status", JNull))>>))
  ELSE IF IsList(data)
  THEN Return(JObj(<<E("pool_id", pool),
                     E("data", Slice(data, PoolTvlLimit, ver).v)>>))
  ELSE Return(JObj(<<E("pool_id", pool), E("data", data)>>))

\* the call `await <tool>(...)` of handle_mcp_request, up to the tool's await
ToolStart(fn, arg) ==
  CASE fn = "get_protocols" -> get_protocols_start
    [] fn = "get_protocol_tvl" -> get_protocol_tvl_start(arg)
    [] fn = "get_chain_tvl" -> get_chain_tvl_start(arg)
    [] fn = "get_token_prices" -> get_token_prices_start(arg)
    [] fn = "get_pools" -> get_pools_start
    [] fn = "get_pool_tvl" -> get_pool_tvl_start(arg)
\* the suspended tool, resumed with the value make_request returned
ToolResume(fn, arg, data, ver) ==
  CASE fn = "get_protocols" -> get_protocols(data, ver)
    [] fn = "get_protocol_tvl" -> get_protocol_tvl(arg, data, ver)
    [] fn = "get_chain_tvl" -> get_chain_tvl(arg, data, ver)
    [] fn = "get_token_prices" -> get_token_prices(arg, data, ver)
    [] fn = "get_pools" -> get_pools(data, ver)
    [] fn = "get_pool_tvl" -> get_pool_tvl(arg, data, ver)

(***************************************************************************)
(* handle_mcp_request.                                                     *)
(***************************************************************************)
\* a local the handler has not bound yet
Unbound == [t |-> "unbound"]
Frame(body, method, params, request_id, tool_name, arguments) ==
  [body |-> body, method |-> method, params |-> params,
   request_id |-> request_id, tool_name |-> tool_name, arguments |-> arguments]
NoFrame == Frame(Unbound, Unbound, Unbound, Unbound, Unbound, Unbound)
\* the suspended tool coroutine: which tool, its argument, the URL it fetches
Call(fn, arg, url) == [fn |-> fn, arg |-> arg, url |-> url]
NoCall == Call("none", JNull, "")
NoResponse == [t |-> "none"]

RpcResult(id, result) ==
  JObj(<<E("jsonrpc", JStr("2.0")), E("id", id), E("result", result)>>)
\* (mutant) an error response that also carries a null result
RpcErrorWithResult(id, code, message) ==
  JObj(<<E("jsonrpc", JStr("2.0")), E("id", id), E("result", JNull),
         E("error", JObj(<<E("code", JNum(code)), E("message", JStr(message))>>))>>)
RpcError(id, code, message) ==
  JObj(<<E("jsonrpc", JStr("2.0")), E("id", id),
         E("error", JObj(<<E("code", JNum(code)), E("message", JStr(message))>>))>>)
\* (mutant) an unknown name reported as an internal error
NotFoundAsInternal(id, what) ==
  RpcError(id, InternalErrorCode, "Method not found: " \o PyStr(what))
\* the -32601 response of the two else branches
NotFound(id, what) ==
  RpcError(id, NotFoundCode, "Method not found: " \o PyStr(what))

InitializeResult ==
  JObj(<<E("protocolVersion", JStr("2024-11-05")),
         E("capabilities", JObj(<<E("tools", JObj(<<>>))>>)),
         E("serverInfo", JObj(<<E("name", JStr("defillama-mcp")),
                                E("version", JStr("1.0.0"))>>))>>)

NoArgDescriptor(name, description) ==
  JObj(<<E("name", JStr(name)), E("description", JStr(description)),
         E("inputSchema", JObj(<<E("type", JStr("object")),
                                 E("properties", JObj(<<>>))>>))>>)
ArgDescriptor(name, description, arg, argDescription) ==
  JObj(<<E("name", JStr(name)), E("description", JStr(description)),
         E("inputSchema", JObj(<<
            E("type", JStr("object")),
            E("properties", JObj(<<E(arg, JObj(<<
                E("type", JStr("string")),
                E("description", JStr(argDescription))>>))>>)),
            E("required", JList(<<JStr(arg)>>))>>))>>)
ToolsListResult ==
  JObj(<<E("tools", JList(<<
    NoArgDescriptor("get_protocols",
      "Retrieve a list of all DeFi protocols from DeFi Llama, limited to the first 20 results"),
    ArgDescriptor("get_protocol_tvl",
      "Get Total Value Locked (TVL) information for a specific DeFi protocol",
      "protocol", "Protocol name (e.g., 'aave', 'uniswap')"),
    ArgDescriptor("get_chain_tvl",
      "Retrieve historical Total Value Locked (TVL) data for a specific blockchain",
      "chain", "Chain name (e.g., 'ethereum', 'bsc')"),
    ArgDescriptor("get_token_prices",
      "Get current price information for a specific token",
      "token", "Token identifier (e.g., 'ethereum:0xc02aaa39b223fe8d0a0e5c4f27ead9083c756cc2')"),
    NoArgDescriptor("get_pools",
      "Retrieve a list of all liquidity pools from DeFi Llama, limited to the first 30 results"),
    ArgDescriptor("get_pool_tvl",
      "Get detailed information about a specific liquidity pool by its ID",
      "pool", "Pool ID")>>))>>)

\* the response of a finished tool: its result serialized into one text item
ToolResponse(request_id, result) ==
  RpcResult(request_id,
    JObj(<<E("content", JList(<<JObj(<<
       E("type", JStr("text")),
       E("text", JText(Dumps(result, Indent)))>>)>>))>>))

\* what a run of the handler up to its next await comes to
Responds(fr, resp) == [kind |-> "return", frame |-> fr, response |-> resp]
Escapes(fr, e) == [kind |-> "raise", frame |-> fr, exc |-> e]
Awaits(fr, c) == [kind |-> "await", frame |-> fr, call |-> c]

\* (mutant) the except clause never looks at the body
ExceptIdNone(fr) == Return(JNull)
\* the id the except clause puts in its response:
\* body.get("id") if 'body' in locals() else None
ExceptId(fr) ==
  IF fr.body = Unbound THEN Return(JNull)
  ELSE IF ~IsDict(fr.body) THEN Raise(NoGetAttr(fr.body))
  ELSE Return(Get(fr.body, "id", JNull))

\* except Exception as e: the -32603 response, unless building it raises
ExceptWith(fr, e, id) ==
  IF ~id.ok THEN Escapes(fr, id.exc)
  ELSE Responds(fr, RpcError(id.v, InternalErrorCode, "Internal error: " \o e.msg))
Except(fr, e) == ExceptWith(fr, e, ExceptId(fr))

\* await <tool>(arguments.get(<key>)): to the tool's await or its early return
StartTool(fr, fn, arg, st) ==
  IF st.await THEN Awaits(fr, Call(fn, arg, st.url))
  ELSE Responds(fr, ToolResponse(fr.request_id, st.v))
CallTool(fr, fn, arg) == StartTool(fr, fn, arg, ToolStart(fn, arg))

\* the if/elif chain on tool_name
SelectTool(fr) ==
  IF fr.tool_name.t = "str" /\ fr.tool_name.s \in NoArgTools
  THEN CallTool(fr, fr.tool_name.s, JNull)
  ELSE IF fr.tool_name.t = "str" /\ fr.tool_name.s \in ToolNames
  THEN IF ~IsDict(fr.arguments) THEN Except(fr, NoGetAttr(fr.arguments))
       ELSE CallTool(fr, fr.tool_name.s,
                     Get(fr.arguments, ArgKey(fr.tool_name.s), JNull))
  ELSE Responds(fr, NotFound(fr.request_id, fr.tool_name))

\* the tools/call branch: tool_name and arguments are read from params
ToolsCall(fr) ==
  IF ~IsDict(fr.params) THEN Except(fr, NoGetAttr(fr.params))
  ELSE SelectTool(Frame(fr.body, fr.method, fr.params, fr.request_id,
                        Get(fr.params, "name", JNull),
                        Get(fr.params, "arguments", JObj(<<>>))))

\* the if/elif chain on method
Route(fr) ==
  IF fr.method = JStr("initialize")
  THEN Responds(fr, RpcResult(fr.request_id, InitializeResult))
  ELSE IF fr.method = JStr("tools/list")
  THEN Responds(fr, RpcResult(fr.request_id, ToolsListResult))
  ELSE IF fr.method = JStr("tools/call")
  THEN ToolsCall(fr)
  ELSE Responds(fr, NotFound(fr.request_id, fr.method))

\* method, params and request_id are read from body
ReadBody(body) ==
  IF ~IsDict(body)
  THEN Except(Frame(body, Unbound, Unbound, Unbound, Unbound, Unbound),
              NoGetAttr(body))
  ELSE Route(Frame(body, Get(body, "method", JNull),
                   Get(body, "params", JObj(<<>>)),
                   Get(body, "id", JNull), Unbound, Unbound))

\* body = await request.json()
Parse(p) ==
  IF ~p.ok THEN Except(NoFrame, Exc("JSONDecodeError", p.msg))
  ELSE ReadBody(p.v)

\* the handler from its entry to its first await on a tool, or to its end
HandleEntry(text) == Parse(Loads(text))

\* (mutant) an exception of the tool is reported as the tool's own failure
FinishSoft(fr, result) ==
  IF ~result.ok
  THEN Responds(fr, ToolResponse(fr.request_id, ErrorPayload(result.exc.msg)))
  ELSE Responds(fr, ToolResponse(fr.request_id, result.v))
\* the handler from the return of the tool to its end
Finish(fr, result) ==
  IF ~result.ok THEN Except(fr, result.exc)
  ELSE Responds(fr, ToolResponse(fr.request_id, result.v))
\* the handler from the return of the fetch to its end
HandleResume(fr, c, rep, ver) ==
  Finish(fr, ToolResume(c.fn, c.arg, make_request(rep), ver))

(***************************************************************************)
(* The requests the clients send and the replies the upstream gives.       *)
(***************************************************************************)
\* a key the sender leaves out
Absent == [t |-> "absent"]
Opt(k, x) == IF x = Absent THEN <<>> ELSE <<E(k, x)>>

\* the list [1, 2, ..., n]
Ramp(n) == JList([i \in 1..n |-> JNum(i)])

RequestIds == {Absent, JNum(1), JStr("req-a")}
ArgValues == {JStr(""), JStr("ethereum"), JNum(0)}
ArgumentsValues ==
  {Absent, JObj(<<>>), JNull, JList(<<>>)}
  \cup {JObj(<<E(k, x)>>) : k \in {"protocol", "chain", "token", "pool"},
                            x \in ArgValues}
NameValues == {Absent} \cup {JStr(n) : n \in ToolNames \cup {"get_everything"}}
ParamsValues ==
  {Absent, JNull, JList(<<>>)}
  \cup {JObj(Opt("name", n) \o Opt("arguments", a)) :
          n \in NameValues, a \in ArgumentsValues}
Request(method, params, id) ==
  JObj(<<E("jsonrpc", JStr("2.0"))>> \o Opt("id", id)
       \o Opt("method", method) \o Opt("params", params))
RequestValues ==
  {JList(<<>>), JStr("ping"), JNum(3), JNull}
  \cup {Request(m, p, id) :
          m \in {Absent, JStr("initialize"), JStr("tools/list"),
                 JStr("unknown_method")},
          p \in {Absent, JNull, JObj(<<>>)}, id \in RequestIds}
  \cup {Request(JStr("tools/call"), p, id) :
          p \in ParamsValues, id \in RequestIds}
\* the bodies POSTed: an empty body, a cut-off one, and well-formed JSON
RequestTexts ==
  {<<>>, <<TPunct("{")>>} \cup {Dumps(x, -1) : x \in RequestValues}

UpstreamValues ==
  {Ramp(n) : n \in 0..MaxListLen}
  \cup {JObj(<<E("status", JStr("success")), E("data", Ramp(n))>>) :
          n \in 0..MaxListLen}
  \cup {JNull, JNum(5), JStr("temporarily unavailable, retry later"),
        JObj(<<E("data", JNum(1))>>),
        JObj(<<E("data", JObj(<<>>))>>),
        JObj(<<E("data", JNull)>>),
        JObj(<<E("data", JStr("pools are being indexed, try again later"))>>),
        JObj(<<E("coins", JObj(<<>>))>>),
        JObj(<<E("name", JStr("Aave")), E("symbol", JStr("AAVE")),
               E("currentChainTvls", JObj(<<E("Ethereum", JNum(5))>>)),
               E("category", JStr("Lending"))>>)}
FailedReplies ==
  {FetchError(c) : c \in {"ConnectError", "ReadTimeout", "RuntimeError"}}
  \cup {HttpReply(st, Dumps(Ramp(1), -1)) : st \in {404, 500}}
  \cup {HttpReply(200, <<TPunct("[")>>)}
Replies ==
  FailedReplies \cup {HttpReply(200, Dumps(x, -1)) : x \in UpstreamValues}

\* the smaller traffic of the concurrent specification
ConcRequestTexts ==
  {Dumps(x, -1) : x \in
     {Request(JStr("tools/call"),
              JObj(<<E("name", JStr("get_chain_tvl")),
                     E("arguments", JObj(<<E("chain", JStr("ethereum"))>>))>>),
              JNum(1)),
      Request(JStr("tools/call"),
              JObj(<<E("name", JStr("get_pool_tvl")),
                     E("arguments", JObj(<<E("pool", JStr("p-7"))>>))>>),
              JStr("req-a")),
      Request(JStr("tools/call"), JObj(<<E("name", JStr("get_protocols"))>>),
              Absent),
      Request(JStr("initialize"), Absent, JNum(2)),
      JList(<<>>)}}
ConcReplies ==
  {FetchError("ConnectError"),
   HttpReply(200, Dumps(Ramp(1), -1)),
   HttpReply(200, Dumps(JObj(<<E("status", JStr("success")),
                               E("data", JList(<<JNum(77)>>))>>), -1))}

(***************************************************************************)
(* The state machine: each request in flight runs the handler from await   *)
(* to await.                                                               *)
(*   pc        where the request is: idle, recv (body read), await (its    *)
(*             tool is suspended on the fetch), done, raised               *)
(*   raw       the body of the request                                     *)
(*   frame     the locals of handle_mcp_request                            *)
(*   call      the locals of the suspended tool                            *)
(*   fetches   the URLs the request has sent a GET to                      *)
(*   reply     what the upstream gave the request's fetch                  *)
(*   response  what the handler returned                                   *)
(*   escaped   the exception that left the handler                         *)
(***************************************************************************)
\* (mutant) the locals are kept in module globals, shared by all requests
SlotShared(r) == 1
\* where the locals of request r live: in its own coroutine frames
Slot(r) == r

InitOf(R) ==
  /\ pc = [r \in R |-> "idle"]
  /\ raw = [r \in R |-> <<>>]
  /\ frame = [r \in R |-> NoFrame]
  /\ call = [r \in R |-> NoCall]
  /\ fetches = [r \in R |-> <<>>]
  /\ reply = [r \in R |-> NoReply]
  /\ response = [r \in R |-> NoResponse]
  /\ escaped = [r \in R |-> NoExc]

\* a request arrives
Receive(r, texts) ==
  /\ pc[r] = "idle"
  /\ \E text \in texts : raw' = [raw EXCEPT ![r] = text]
  /\ pc' = [pc EXCEPT ![r] = "recv"]
  /\ UNCHANGED <<frame, call, fetches, reply, response, escaped>>

\* the handler runs from the body to its return, or to the GET of its tool
Dispatch(r) ==
  /\ pc[r] = "recv"
  /\ \E o \in {HandleEntry(raw[r])} :
       /\ frame' = [frame EXCEPT ![Slot(r)] = o.frame]
       /\ pc' = [pc EXCEPT ![r] = IF o.kind = "return" THEN "done"
                                  ELSE IF o.kind = "raise" THEN "raised"
                                  ELSE "await"]
       /\ response' = IF o.kind = "return"
                      THEN [response EXCEPT ![r] = o.response] ELSE response
       /\ escaped' = IF o.kind = "raise"
                     THEN [escaped EXCEPT ![r] = o.exc] ELSE escaped
       /\ call' = IF o.kind = "await"
                  THEN [call EXCEPT ![Slot(r)] = o.call] ELSE call
       /\ fetches' = IF o.kind = "await"
                     THEN [fetches EXCEPT ![r] = Append(@, o.call.url)]
                     ELSE fetches
  /\ UNCHANGED <<raw, reply>>

\* the fetch returns and the handler runs to its end
FetchReturn(r, replies) ==
  /\ pc[r] = "await"
  /\ call[Slot(r)].fn \in ToolNames
  /\ \E rep \in replies, ver \in PythonVersions :
       \E o \in {HandleResume(frame[Slot(r)], call[Slot(r)], rep, ver)} :
         /\ reply' = [reply EXCEPT ![r] = rep]
         /\ pc' = [pc EXCEPT ![r] = IF o.kind = "return" THEN "done" ELSE "raised"]
         /\ response' = IF o.kind = "return"
                        THEN [response EXCEPT ![r] = o.response] ELSE response
         /\ escaped' = IF o.kind = "raise"
                       THEN [escaped EXCEPT ![r] = o.exc] ELSE escaped
  /\ UNCHANGED <<raw, frame, call, fetches>>

\* the host sends the outcome and the request is over
Complete(r) ==
  /\ pc[r] \in {"done", "raised"}
  /\ pc' = [pc EXCEPT ![r] = "idle"]
  /\ raw' = [raw EXCEPT ![r] = <<>>]
  /\ frame' = [frame EXCEPT ![Slot(r)] = NoFrame]
  /\ call' = [call EXCEPT ![Slot(r)] = NoCall]
  /\ fetches' = [fetches EXCEPT ![r] = <<>>]
  /\ reply' = [reply EXCEPT ![r] = NoReply]
  /\ response' = [response EXCEPT ![r] = NoResponse]
  /\ escaped' = [escaped EXCEPT ![r] = NoExc]

Reqs == DOMAIN pc

\* one request at a time, over the whole range of bodies and replies
Init == InitOf({1})
Next ==
  \E r \in Reqs :
    \/ Receive(r, RequestTexts)
    \/ Dispatch(r)
    \/ FetchReturn(r, Replies)
    \/ Complete(r)
Spec == Init /\ [][Next]_vars

\* NumRequests requests served concurrently, interleaved at their awaits
InitConc == InitOf(1..NumRequests)
NextConc ==
  \E r \in Reqs :
    \/ Receive(r, ConcRequestTexts)
    \/ Dispatch(r)
    \/ FetchReturn(r, ConcReplies)
    \/ Complete(r)
SpecConc == InitConc /\ [][NextConc]_vars

(***************************************************************************)
(* What the properties read off a state: the request as it was sent, and   *)
(* the members of the response.                                            *)
(***************************************************************************)
\* x[k] of a JSON object, Absent when x is no object or has no member k
Member(x, k) == IF x.t = "dict" /\ HasKey(x, k) THEN Get(x, k, JNull) ELSE Absent
OrEmpty(x) == IF x = Absent THEN JObj(<<>>) ELSE x
OrNull(x) == IF x = Absent THEN JNull ELSE x
ValueOf(p) == IF p.ok THEN p.v ELSE Absent

\* the JSON value of the request's body (Absent: the body is not JSON)
Sent(r) == ValueOf(Loads(raw[r]))
SentIsObject(r) == Sent(r).t = "dict"
SentMethod(r) == Member(Sent(r), "method")
SentId(r) == OrNull(Member(Sent(r), "id"))
\* params and arguments, an omitted one read as {}
SentParams(r) == OrEmpty(Member(Sent(r), "params"))
SentName(r) == Member(SentParams(r), "name")
SentArguments(r) == OrEmpty(Member(SentParams(r), "arguments"))
IsToolsCall(r) == SentIsObject(r) /\ SentMethod(r) = JStr("tools/call")

SixTools == {"get_protocols", "get_protocol_tvl", "get_chain_tvl",
             "get_token_prices", "get_pools", "get_pool_tvl"}
FourArgTools == {"get_protocol_tvl", "get_chain_tvl", "get_token_prices",
                 "get_pool_tvl"}
NamesTool(x, tools) == x.t = "str" /\ x.s \in tools
\* a tools/call that names one of `tools`, with params an object
CallsOneOf(r, tools) ==
  IsToolsCall(r) /\ SentParams(r).t = "dict" /\ NamesTool(SentName(r), tools)

Finished(r) == pc[r] \in {"done", "raised"}
Dispatched(r) == pc[r] \in {"await", "done", "raised"}

HasResult(resp) == Member(resp, "result") # Absent
HasError(resp) == Member(resp, "error") # Absent
ErrorCode(resp) == Member(Member(resp, "error"), "code")
ErrorMessage(resp) == Member(Member(resp, "error"), "message")
IdOf(resp) == Member(resp, "id")
IsRpcError(resp, code) ==
  HasError(resp) /\ ~HasResult(resp) /\ ErrorCode(resp) = JNum(code)

StartsWith(str, prefix) ==
  Len(str) >= Len(prefix) /\ SubSeq(str, 1, Len(prefix)) = prefix
EndsWith(str, suffix) ==
  Len(str) >= Len(suffix)
  /\ SubSeq(str, Len(str) - Len(suffix) + 1, Len(str)) = suffix

\* the single text item of result.content, and the JSON value its text holds
Content(resp) == Member(Member(resp, "result"), "content")
TextItem(resp) ==
  IF Content(resp).t = "list" /\ Len(Content(resp).v) = 1
  THEN Content(resp).v[1] ELSE Absent
Payload(resp) ==
  IF Member(TextItem(resp), "text").t = "text"
  THEN ValueOf(Loads(Member(TextItem(resp), "text").toks))
  ELSE Absent
\* a payload {error: "<message>"} and nothing else
IsErrorPayload(x) ==
  x.t = "dict" /\ Keys(x) = {"error"} /\ Member(x, "error").t = "str"

\* a JSON-RPC response object: jsonrpc 2.0, an id, and a result or an error
\* object with an integer code and a string message
WellFormed(resp) ==
  /\ resp.t = "dict"
  /\ Member(resp, "jsonrpc") = JStr("2.0")
  /\ IdOf(resp) # Absent
  /\ HasResult(resp) # HasError(resp)
  /\ HasError(resp) =>
       /\ ErrorCode(resp).t = "num"
       /\ ErrorMessage(resp).t = "str"

\* the fetch failed: no response, an error status, or a body that is not JSON
FetchFailed(rep) ==
  \/ rep.kind = "error"
  \/ rep.kind = "http" /\ rep.status >= 400
  \/ rep.kind = "http" /\ ~Loads(rep.body).ok
\* the JSON value a successful fetch carried
Fetched(rep) ==
  IF rep.kind = "http" /\ rep.status < 400 THEN ValueOf(Loads(rep.body))
  ELSE Absent

(***************************************************************************)
(* C1.  Every request to POST /, whatever its body (a JSON object, a JSON  *)
(* value that is no object, or no JSON at all) and whatever the shape of   *)
(* params and arguments, gets a well-formed JSON-RPC response from         *)
(* handle_mcp_request: no exception leaves the handler, and a body that    *)
(* cannot be dispatched is answered with error -32603 "Internal error:     *)
(* ...".                                                                   *)
(***************************************************************************)
C1_EveryRequestAnswered ==
  \A r \in Reqs :
    Finished(r) =>
      /\ pc[r] = "done"
      /\ WellFormed(response[r])
      /\ ~SentIsObject(r) =>
           /\ IsRpcError(response[r], -32603)
           /\ StartsWith(ErrorMessage(response[r]).s, "Internal error: ")

(***************************************************************************)
(* C2.  Every response the handler returns carries the id of its request   *)
(* (null when the request has none), on every path; the -32603 response    *)
(* carries the body's id whenever the body was parsed, and null only when  *)
(* the body could not be parsed.                                           *)
(***************************************************************************)
C2_IdEchoed ==
  \A r \in Reqs :
    pc[r] = "done" =>
      /\ Sent(r) # Absent => SentIsObject(r) /\ IdOf(response[r]) = SentId(r)
      /\ Sent(r) = Absent =>
           IdOf(response[r]) = JNull /\ IsRpcError(response[r], -32603)

\* the id is recovered on the internal-error path taken after the fetch
C2_Witness ==
  \E r \in Reqs :
    /\ pc[r] = "done"
    /\ reply[r] # NoReply
    /\ IsRpcError(response[r], -32603)
    /\ IdOf(response[r]) = JStr("req-a")

(***************************************************************************)
(* C3.  A tools/call to one of the four tools that require an argument,    *)
(* whose arguments object is empty or lacks the required key, is answered  *)
(* with a result and no error member, whose text deserializes to           *)
(* {error: "<Field> is required"}; get_protocols and get_pools are never   *)
(* rejected for an empty arguments object: they go on to their fetch.      *)
(***************************************************************************)
LacksRequired(r) ==
  /\ CallsOneOf(r, FourArgTools)
  /\ SentArguments(r).t = "dict"
  /\ ~HasKey(SentArguments(r), ArgKey(SentName(r).s))
IsRequiredError(x) ==
  IsErrorPayload(x) /\ EndsWith(Member(x, "error").s, " is required")

C3_MissingArgumentIsSoftError ==
  \A r \in Reqs :
    /\ Dispatched(r) /\ LacksRequired(r) =>
         /\ pc[r] = "done"
         /\ HasResult(response[r]) /\ ~HasError(response[r])
         /\ IsRequiredError(Payload(response[r]))
    /\ Dispatched(r) /\ CallsOneOf(r, {"get_protocols", "get_pools"})
         /\ SentArguments(r) = JObj(<<>>) =>
         /\ Len(fetches[r]) = 1
         /\ pc[r] # "raised"
         /\ pc[r] = "done" => ~IsRequiredError(Payload(response[r]))

\* get_pool_tvl called with arguments that hold another key than pool
C3_Witness ==
  \E r \in Reqs :
    /\ pc[r] = "done"
    /\ LacksRequired(r)
    /\ SentName(r) = JStr("get_pool_tvl")
    /\ SentArguments(r) = JObj(<<E("chain", JStr("ethereum"))>>)
    /\ Payload(response[r]) = JObj(<<E("error", JStr("Pool ID is required"))>>)

(***************************************************************************)
(* C4.  Whenever the upstream fetch of a tool fails, for whatever cause    *)
(* (HTTP status >= 400, connection error, malformed body, any other        *)
(* exception), make_request returns its one failure value, the tool        *)
(* returns an object with the key error and no other, and the response has *)
(* a result and no error member; for a given tool and argument the         *)
(* response is the same for every cause.                                   *)
(***************************************************************************)
\* the response the suspended request r gets if its fetch is answered by rep
ResponseTo(r, rep) ==
  {HandleResume(frame[r], call[r], rep, ver) : ver \in PythonVersions}
Failures(replies) == {rep \in replies : FetchFailed(rep)}

C4_FetchFailureCollapses ==
  \A r \in Reqs :
    /\ pc[r] = "done" /\ FetchFailed(reply[r]) =>
         /\ make_request(reply[r]) = JNull
         /\ HasResult(response[r]) /\ ~HasError(response[r])
         /\ IsErrorPayload(Payload(response[r]))
    /\ pc[r] = "await" =>
         \A rep1, rep2 \in Failures(Replies) :
           /\ ResponseTo(r, rep1) = ResponseTo(r, rep2)
           /\ Cardinality(ResponseTo(r, rep1)) = 1

\* get_token_prices, whose fetch got a 200 with a body that is not JSON
C4_Witness ==
  \E r \in Reqs :
    /\ pc[r] = "done"
    /\ call[r].fn = "get_token_prices"
    /\ reply[r].kind = "http" /\ reply[r].status = 200
    /\ ~Loads(reply[r].body).ok
    /\ IsErrorPayload(Payload(response[r]))

(***************************************************************************)
(* C5.  For a request whose body is a JSON object: a tools/call whose      *)
(* params is an object (an omitted params being {}) and whose params.name  *)
(* is none of the six tool names is answered with error -32601 "Method not *)
(* found: {name}", and a method other than initialize, tools/list and      *)
(* tools/call with error -32601 "Method not found: {method}"; in both      *)
(* cases the response has no result member and no upstream fetch is        *)
(* issued.  (An omitted name or method is formatted as None.)              *)
(***************************************************************************)
IsMethodNotFound(r, what) ==
  /\ pc[r] = "done"
  /\ IsRpcError(response[r], -32601)
  /\ ErrorMessage(response[r]) = JStr("Method not found: " \o PyStr(OrNull(what)))
  /\ fetches[r] = <<>>
UnknownMethodNotFound(r) ==
  Dispatched(r) /\ SentIsObject(r)
    /\ SentMethod(r) \notin {JStr("initialize"), JStr("tools/list"),
                             JStr("tools/call")} =>
    IsMethodNotFound(r, SentMethod(r))

C5_UnknownNameOrMethod ==
  \A r \in Reqs :
    /\ Dispatched(r) /\ IsToolsCall(r) /\ SentParams(r).t = "dict"
         /\ ~NamesTool(SentName(r), SixTools) =>
         IsMethodNotFound(r, SentName(r))
    /\ UnknownMethodNotFound(r)

C5_Witness ==
  \E r \in Reqs :
    /\ pc[r] = "done"
    /\ IsToolsCall(r)
    /\ SentName(r) = JStr("get_everything")
    /\ ErrorMessage(response[r]) = JStr("Method not found: get_everything")

\* C5 as first stated, for every request whose body is a JSON object: a
\* params that is no object (null, a list) has no name among the six either
C5_AnyParams ==
  \A r \in Reqs :
    /\ Dispatched(r) /\ IsToolsCall(r) /\ ~NamesTool(SentName(r), SixTools) =>
         IsMethodNotFound(r, SentName(r))
    /\ UnknownMethodNotFound(r)

(***************************************************************************)
(* C6.  Every response of the handler has exactly one of the members       *)
(* result and error; an error's code is -32601 or -32603; and a            *)
(* protocol-level failure (unknown method, unknown tool name, an exception *)
(* in the dispatch) is never reported through result.                      *)
(***************************************************************************)
\* the request cannot be dispatched to a tool, initialize or tools/list
ProtocolFailure(r) ==
  \/ Sent(r) = Absent
  \/ /\ SentIsObject(r)
     /\ SentMethod(r) \notin {JStr("initialize"), JStr("tools/list"),
                              JStr("tools/call")}
  \/ /\ IsToolsCall(r)
     /\ \/ SentParams(r).t # "dict"
        \/ ~NamesTool(SentName(r), SixTools)
        \/ /\ NamesTool(SentName(r), FourArgTools)
           /\ SentArguments(r).t # "dict"

C6_ResultXorError ==
  \A r \in Reqs :
    pc[r] = "done" =>
      /\ HasResult(response[r]) # HasError(response[r])
      /\ HasError(response[r]) =>
           ErrorCode(response[r]) \in {JNum(-32601), JNum(-32603)}
      /\ ProtocolFailure(r) => HasError(response[r])

\* an exception in the dispatch: params is a list
C6_Witness ==
  \E r \in Reqs :
    /\ pc[r] = "done"
    /\ IsToolsCall(r)
    /\ SentParams(r) = JList(<<>>)
    /\ IsRpcError(response[r], -32603)

(***************************************************************************)
(* C7.  Whatever value the fetch returns successfully (a list of any       *)
(* length, an object with a data key, an object without one), the list a   *)
(* tool carries in its envelope is bounded: at most 20 entries under       *)
(* protocols for get_protocols, at most 30 for get_chain_tvl (tvl_data),   *)
(* get_pools (pools) and get_pool_tvl (chart_data or data).                *)
(***************************************************************************)
\* the list under key k of the payload, if there is one, has at most n entries
AtMost(x, k, n) == Member(x, k).t = "list" => Len(Member(x, k).v) <= n

C7_ListsTruncated ==
  \A r \in Reqs :
    pc[r] = "done" /\ Fetched(reply[r]) # Absent =>
      /\ CallsOneOf(r, {"get_protocols"}) =>
           AtMost(Payload(response[r]), "protocols", 20)
      /\ CallsOneOf(r, {"get_chain_tvl"}) =>
           AtMost(Payload(response[r]), "tvl_data", 30)
      /\ CallsOneOf(r, {"get_pools"}) =>
           AtMost(Payload(response[r]), "pools", 30)
      /\ CallsOneOf(r, {"get_pool_tvl"}) =>
           /\ AtMost(Payload(response[r]), "chart_data", 30)
           /\ AtMost(Payload(response[r]), "data", 30)

\* get_pool_tvl cuts the data list of an object that holds more than 30
C7_Witness ==
  \E r \in Reqs :
    /\ pc[r] = "done"
    /\ CallsOneOf(r, {"get_pool_tvl"})
    /\ Member(Fetched(reply[r]), "data").t = "list"
    /\ Len(Member(Fetched(reply[r]), "data").v) > 30
    /\ Member(Payload(response[r]), "chart_data").t = "list"
    /\ Len(Member(Payload(response[r]), "chart_data").v) = 30

(***************************************************************************)
(* C8.  A tools/call to get_chain_tvl with a non-empty chain argument c,   *)
(* answered by the upstream with a list L, gets a result whose content is  *)
(* one text item that deserializes to exactly {chain: c, tvl_data: P}, P   *)
(* the first min(30, |L|) elements of L, in order and unaltered.           *)
(***************************************************************************)
SentChain(r) == Member(SentArguments(r), "chain")
ChainCall(r) ==
  /\ CallsOneOf(r, {"get_chain_tvl"})
  /\ SentChain(r).t = "str" /\ SentChain(r).s # ""
  /\ Fetched(reply[r]).t = "list"
Prefix(seq, n) == [i \in 1..Min(n, Len(seq)) |-> seq[i]]

C8_ChainTvlEnvelope ==
  \A r \in Reqs :
    Finished(r) /\ ChainCall(r) =>
      /\ pc[r] = "done"
      /\ HasResult(response[r]) /\ ~HasError(response[r])
      /\ Member(TextItem(response[r]), "type") = JStr("text")
      /\ Payload(response[r]) =
           JObj(<<E("chain", SentChain(r)),
                  E("tvl_data", JList(Prefix(Fetched(reply[r]).v, 30)))>>)

\* the upstream list is longer than 30: the envelope holds its first 30
C8_Witness ==
  \E r \in Reqs :
    /\ pc[r] = "done"
    /\ ChainCall(r)
    /\ Len(Fetched(reply[r]).v) > 30
    /\ Len(Member(Payload(response[r]), "tvl_data").v) = 30

(***************************************************************************)
(* C9.  Each request issues at most one upstream fetch and receives        *)
(* exactly one response: a tools/call to a known tool whose required       *)
(* argument is present issues exactly one fetch, and its response is       *)
(* composed only after that fetch has returned; a failed fetch is never    *)
(* issued again; initialize, tools/list, unknown-method, unknown-tool and  *)
(* missing-argument requests issue no fetch.                               *)
(***************************************************************************)
\* a tools/call to a known tool that has the argument it requires
CallWithArgument(r) ==
  \/ CallsOneOf(r, {"get_protocols", "get_pools"})
  \/ /\ CallsOneOf(r, FourArgTools)
     /\ SentArguments(r).t = "dict"
     /\ Truthy(OrNull(Member(SentArguments(r), ArgKey(SentName(r).s))))
\* initialize, tools/list, an unknown method, an unknown tool, a missing argument
NoFetchRequest(r) ==
  \/ SentIsObject(r) /\ SentMethod(r) # JStr("tools/call")
  \/ IsToolsCall(r) /\ SentParams(r).t = "dict"
       /\ ~NamesTool(SentName(r), SixTools)
  \/ /\ CallsOneOf(r, FourArgTools)
     /\ SentArguments(r).t = "dict"
     /\ ~Truthy(OrNull(Member(SentArguments(r), ArgKey(SentName(r).s))))

\* the fetches of C9: at most one a request, one exactly for a call with its
\* argument, answered before the response is composed, none for the others
FetchDiscipline(r) ==
  /\ Len(fetches[r]) <= 1
  /\ Dispatched(r) /\ CallWithArgument(r) =>
       /\ Len(fetches[r]) = 1
       /\ pc[r] = "await" => reply[r] = NoReply /\ response[r] = NoResponse
       /\ response[r] # NoResponse => reply[r] # NoReply
  /\ Dispatched(r) /\ NoFetchRequest(r) => fetches[r] = <<>>
\* a request that is over has got its one response
OneResponse(r) ==
  Finished(r) => pc[r] = "done" /\ WellFormed(response[r])

C9_OneFetchOneResponse ==
  \A r \in Reqs : FetchDiscipline(r) /\ OneResponse(r)

\* the part of C9 about the fetches alone, which the code keeps
C9_FetchesOnly == \A r \in Reqs : FetchDiscipline(r)

(***************************************************************************)
(* C10.  When requests are served concurrently and interleave at their     *)
(* fetches in any order, the response to each is a function of its own     *)
(* body and of the reply to its own fetch alone: no step of one request    *)
(* reads or writes what another request wrote, every interleaving gives    *)
(* each request the response it gets when served alone, and no response    *)
(* carries the id or the data of another request.                          *)
(***************************************************************************)
\* what a request with this body, its fetch answered by rep, gets when it is
\* the only one served
ResumedAlone(o, rep, ver) ==
  IF o.kind = "await" THEN HandleResume(o.frame, o.call, rep, ver) ELSE o
ServedAlone(text, rep) ==
  {ResumedAlone(HandleEntry(text), rep, ver) : ver \in PythonVersions}
AloneResponses(text, rep) ==
  {o.response : o \in {x \in ServedAlone(text, rep) : x.kind = "return"}}
AloneExceptions(text, rep) ==
  {o.exc : o \in {x \in ServedAlone(text, rep) : x.kind = "raise"}}

SameAsAlone(r) ==
  /\ pc[r] = "done" =>
       /\ response[r] \in AloneResponses(raw[r], reply[r])
       /\ IdOf(response[r]) = SentId(r)
  /\ pc[r] = "raised" => escaped[r] \in AloneExceptions(raw[r], reply[r])
  /\ pc[r] = "await" => fetches[r] = <<HandleEntry(raw[r]).call.url>>
\* the state of request r
Own(r) == <<pc[r], raw[r], frame[r], call[r], fetches[r], reply[r],
            response[r], escaped[r]>>
\* a step is taken by one request and leaves the state of the others alone
StepOfOne ==
  \E r \in Reqs : \A q \in Reqs \ {r} : Own(q)' = Own(q)

C10_Isolation ==
  /\ [](\A r \in Reqs : SameAsAlone(r))
  /\ [][StepOfOne]_vars

\* a request is answered from its fetch while another, with another id, is
\* still suspended on its own
C10_Witness ==
  \E r, q \in Reqs :
    /\ r # q
    /\ pc[r] = "done" /\ reply[r] # NoReply /\ HasResult(response[r])
    /\ pc[q] = "await"
    /\ SentId(r) # SentId(q)

(***************************************************************************)
(* C11.  When the fetch succeeds with a JSON value the tool cannot slice   *)
(* or index (an object or a number for get_protocols and get_chain_tvl, a  *)
(* value other than an object for get_protocol_tvl, an object whose data   *)
(* member is neither a list nor a string for get_pools and get_pool_tvl),  *)
(* the tools/call is answered with error -32603 and the id of the request, *)
(* not with a result holding an {error} payload; and when the body of the  *)
(* upstream is the JSON value null, the tool reports a failed fetch:       *)
(* {error: "Failed to fetch ..."} inside a result.                         *)
(***************************************************************************)
\* the shapes the tool fn raises on: d[:n] of a dict or a number, d.get of a
\* value that is no dict, d['data'][:n] of a data member that has no slices
Unsliceable(fn, d) ==
  \/ fn \in {"get_protocols", "get_chain_tvl"} /\ d.t \in {"dict", "num"}
  \/ fn = "get_protocol_tvl" /\ d.t \in {"bool", "num", "str", "list"}
  \/ /\ fn \in {"get_pools", "get_pool_tvl"}
     /\ Member(d, "data") # Absent
     /\ Member(d, "data").t \notin {"list", "str"}
\* the shapes as the claim lists them: any data member that is not a list
NotAList(fn, d) ==
  \/ Unsliceable(fn, d)
  \/ /\ fn \in {"get_pools", "get_pool_tvl"}
     /\ Member(d, "data") # Absent
     /\ Member(d, "data").t # "list"

\* request r called a tool with its argument and the fetch brought a value
Answered(r) ==
  Finished(r) /\ CallWithArgument(r) /\ Fetched(reply[r]) # Absent
IsInternalError(r) ==
  /\ pc[r] = "done"
  /\ IsRpcError(response[r], -32603)
  /\ IdOf(response[r]) = SentId(r)
  /\ ErrorMessage(response[r]).t = "str"
  /\ StartsWith(ErrorMessage(response[r]).s, "Internal error: ")
IsFetchFailure(r) ==
  /\ pc[r] = "done"
  /\ HasResult(response[r]) /\ ~HasError(response[r])
  /\ IdOf(response[r]) = SentId(r)
  /\ IsErrorPayload(Payload(response[r]))
  /\ StartsWith(Member(Payload(response[r]), "error").s, "Failed to fetch")
NullIsFailure(r) ==
  Answered(r) /\ Fetched(reply[r]) = JNull => IsFetchFailure(r)

C11_UnusableUpstream ==
  \A r \in Reqs :
    /\ Answered(r) /\ Unsliceable(SentName(r).s, Fetched(reply[r])) =>
         IsInternalError(r)
    /\ NullIsFailure(r)

\* get_pools got an object whose data member is a number
C11_Witness ==
  \E r \in Reqs :
    /\ Answered(r)
    /\ CallsOneOf(r, {"get_pools"})
    /\ Member(Fetched(reply[r]), "data").t = "num"
    /\ IsInternalError(r)

\* the claim as it was written: every data member that is not a list
C11_AnyDataMember ==
  \A r \in Reqs :
    /\ Answered(r) /\ NotAList(SentName(r).s, Fetched(reply[r])) =>
         IsInternalError(r)
    /\ NullIsFailure(r)

====
